---- MODULE Spec2Model ----
(***************************************************************************)
(* Model of keel_telegram_bot.bot.KeelTelegramBot: the registry of the     *)
(* chat messages that display an approval (_message_map), the pass that    *)
(* re-renders them (update_messages), the dispatch of new pending          *)
(* approvals, the inline-button click handler and the admin commands.      *)
(*                                                                         *)
(* The approval API (KeelApiClient) and the chat platform (send_message,   *)
(* edit_message_text, answer_callback_query) are collaborators: what they  *)
(* return (a listing, a message id) or raise is an input of the actions.   *)
(***************************************************************************)
EXTENDS Integers, Sequences, FiniteSets, TLC

\* ------------------------------------------------------------------ bounds
NumChats == 2            \* configured chat ids are 1..NumChats
MaxMessages == 2         \* messages the bot sends in all
MaxVotes == 1            \* votesRequired ranges over 1..MaxVotes

\* ---------------------------------------------------------------- universes
TELEGRAM_CHAT_IDS == 1..NumChats
Ids == {"a", "a_b"}
Identifiers == {"c", "b_c"}
None == "None"
Users == { [full_name |-> "Ann", name |-> "@ann", is_admin |-> TRUE],
           [full_name |-> "Bob", name |-> "@bob", is_admin |-> FALSE] }
Voters == {None, "john"}
ApiOutcomes == {"none", "HTTPError", "ConnectionError"}   \* what an API call raises
HttpDetail == "approval not found"

BUTTON_DATA_NOTHING == "nothing"
BUTTON_DATA_APPROVE == "approve"
BUTTON_DATA_REJECT == "reject"
ButtonTokens == {BUTTON_DATA_NOTHING, BUTTON_DATA_APPROVE, BUTTON_DATA_REJECT, "stale"}

VARIABLES
    message_map,      \* self._message_map: key -> chats (insertion order) -> set of message ids
    next_message_id,  \* chat platform: the next message id of each chat
    ev                \* the event being handled: its inputs, the calls it made, the registry before it

vars == <<message_map, next_message_id, ev>>

\* ------------------------------------------------------------------ helpers
Min(S) == CHOOSE x \in S : \A y \in S : x <= y

RECURSIVE SortedSeq(_)
\* iteration order of a set of small ints (CPython: ascending)
SortedSeq(S) == IF S = {} THEN <<>> ELSE <<Min(S)>> \o SortedSeq(S \ {Min(S)})

Range(s) == { s[i] : i \in 1..Len(s) }

\* one outgoing call, as recorded in ev.calls
Call(op) == [op |-> op, chat |-> 0, msg |-> 0, body |-> <<>>, menu |-> <<>>,
             text |-> "", id |-> "", identifier |-> "", voter |-> "", err |-> "none"]

Ok(call) == call.err = "none"

\* ----------------------------------------------------------------- rendering
\* approval_to_str: the display text, as its lines
approval_to_str(item) ==
    << [label |-> "Id", value |-> item.id],
       [label |-> "Identifier", value |-> item.identifier],
       [label |-> "Votes", value |-> ToString(item.votesReceived) \o "/" \o ToString(item.votesRequired)] >>

\* a menu that looks at the votes before the rejected flag
MenuVotesBeforeRejected(item) ==
    IF item.archived THEN << <<"Approved", BUTTON_DATA_NOTHING>> >>
    ELSE IF item.votesRequired > item.votesReceived
         THEN << <<"Approve", BUTTON_DATA_APPROVE>>, <<"Reject", BUTTON_DATA_REJECT>> >>
         ELSE IF item.rejected THEN << <<"Rejected", BUTTON_DATA_NOTHING>> >>
         ELSE <<>>

\* create_approval_notification_menu: the buttons, as (text, callback data) in dict order
create_approval_notification_menu(item) ==
    IF item.archived THEN << <<"Approved", BUTTON_DATA_NOTHING>> >>
    ELSE IF item.rejected THEN << <<"Rejected", BUTTON_DATA_NOTHING>> >>
    ELSE IF item.votesRequired > item.votesReceived
         THEN << <<"Approve", BUTTON_DATA_APPROVE>>, <<"Reject", BUTTON_DATA_REJECT>> >>
         ELSE <<>>

\* ------------------------------------------------------------------ registry
\* key = f"{approval_id}_{approval_identifier}"
MessageKey(approval_id, approval_identifier) == approval_id \o "_" \o approval_identifier

ChatIndex(chats, chat_id) ==
    IF \E i \in 1..Len(chats) : chats[i].chat_id = chat_id
    THEN CHOOSE i \in 1..Len(chats) : chats[i].chat_id = chat_id
    ELSE 0

\* a registration that assigns the key's entry: self._message_map[key] = {chat_id: {message_id}}
RegisterMessageAssign(m, chat_id, message_id, approval_id, approval_identifier) ==
    LET key == MessageKey(approval_id, approval_identifier)
    IN [k \in DOMAIN m \cup {key} |->
          IF k = key THEN << [chat_id |-> chat_id, message_ids |-> {message_id}] >> ELSE m[k]]

\* _register_message: setdefault(key, {}).setdefault(chat_id, set()).add(message_id)
RegisterMessage(m, chat_id, message_id, approval_id, approval_identifier) ==
    LET key == MessageKey(approval_id, approval_identifier)
        chats == IF key \in DOMAIN m THEN m[key] ELSE <<>>
        i == ChatIndex(chats, chat_id)
        chats2 == IF i = 0
                  THEN Append(chats, [chat_id |-> chat_id, message_ids |-> {message_id}])
                  ELSE [chats EXCEPT ![i].message_ids = @ \cup {message_id}]
    IN [k \in DOMAIN m \cup {key} |-> IF k = key THEN chats2 ELSE m[k]]

\* the (key, chatId, messageId) entries of a registry
Tracked(m) ==
    { <<k, m[k][i].chat_id, id>> : <<k, i, id>> \in
        { t \in (DOMAIN m) \X (1..NumChats) \X (1..MaxMessages) :
            t[2] <= Len(m[t[1]]) /\ t[3] \in m[t[1]][t[2]].message_ids } }

TrackedPairs(m) == { <<t[2], t[3]>> : t \in Tracked(m) }

\* ------------------------------------------------------------ update_messages
\* the edit_message_text calls of one chat's message ids
EditCalls(approval, chat_id, message_ids, failing) ==
    LET ids == SortedSeq(message_ids)
    IN [n \in 1..Len(ids) |->
          [Call("edit") EXCEPT !.chat = chat_id, !.msg = ids[n],
                               !.body = approval_to_str(approval),
                               !.menu = create_approval_notification_menu(approval),
                               !.err = IF <<chat_id, ids[n]>> \in failing
                                        THEN "TelegramError" ELSE "none"]]

RECURSIVE RemoveFailures(_, _, _, _)
\* for failure in failed_messages: message_ids.remove(failure)   (set.remove raises KeyError)
RemoveFailures(chat_id, message_ids, failed_messages, calls) ==
    IF failed_messages = {}
    THEN [message_ids |-> message_ids, calls |-> calls, raised |-> "none"]
    ELSE LET failure == Min(failed_messages)
             c == [Call("remove") EXCEPT !.chat = chat_id, !.msg = failure,
                                         !.err = IF failure \in message_ids
                                                 THEN "none" ELSE "KeyError"]
         IN IF failure \notin message_ids
            THEN [message_ids |-> message_ids, calls |-> Append(calls, c), raised |-> "KeyError"]
            ELSE RemoveFailures(chat_id, message_ids \ {failure},
                                failed_messages \ {failure}, Append(calls, c))

RECURSIVE ChatsLoopFinally(_, _, _, _, _, _, _)
\* a loop that adds every message id to failed_messages, edited or not
ChatsLoopFinally(m, key, approval, j, failed_messages, failing, calls) ==
    IF j > Len(m[key])
    THEN [map |-> m, calls |-> calls, raised |-> "none"]
    ELSE LET chat_id == m[key][j].chat_id
             message_ids == m[key][j].message_ids
             edited == calls \o EditCalls(approval, chat_id, message_ids, failing)
             failed2 == failed_messages \cup message_ids
             rem == RemoveFailures(chat_id, message_ids, failed2, edited)
             m2 == [m EXCEPT ![key][j].message_ids = rem.message_ids]
         IN IF rem.raised # "none"
            THEN [map |-> m2, calls |-> rem.calls, raised |-> rem.raised]
            ELSE ChatsLoopFinally(m2, key, approval, j + 1, failed2, failing, rem.calls)

RECURSIVE ChatsLoop(_, _, _, _, _, _, _)
\* for chat_id, message_ids in chats.items(): ... ; failed_messages lives across the chats
ChatsLoop(m, key, approval, j, failed_messages, failing, calls) ==
    IF j > Len(m[key])
    THEN [map |-> m, calls |-> calls, raised |-> "none"]
    ELSE LET chat_id == m[key][j].chat_id
             message_ids == m[key][j].message_ids
             edited == calls \o EditCalls(approval, chat_id, message_ids, failing)
             failed2 == failed_messages \cup
                        { id \in message_ids : <<chat_id, id>> \in failing }
             rem == RemoveFailures(chat_id, message_ids, failed2, edited)
             m2 == [m EXCEPT ![key][j].message_ids = rem.message_ids]
         IN IF rem.raised # "none"
            THEN [map |-> m2, calls |-> rem.calls, raised |-> rem.raised]
            ELSE ChatsLoop(m2, key, approval, j + 1, failed2, failing, rem.calls)

RECURSIVE ApprovalsLoop(_, _, _, _, _)
\* for approval in approvals: chats = self._message_map.get(key, {}) ...
ApprovalsLoop(m, listing, i, failing, calls) ==
    IF i > Len(listing)
    THEN [map |-> m, calls |-> calls, raised |-> "none"]
    ELSE LET key == MessageKey(listing[i].id, listing[i].identifier)
         IN IF key \notin DOMAIN m
            THEN ApprovalsLoop(m, listing, i + 1, failing, calls)
            ELSE LET r == ChatsLoop(m, key, listing[i], 1, {}, failing, calls)
                 IN IF r.raised # "none" THEN r
                    ELSE ApprovalsLoop(r.map, listing, i + 1, failing, r.calls)

\* update_messages: fetch is the outcome of get_approvals(), failing the
\* (chat, message) pairs whose edit the platform refuses
UpdateMessages(m, listing, fetch, failing) ==
    LET start == << Call("update_messages"), [Call("get_approvals") EXCEPT !.err = fetch] >>
    IN IF fetch # "none"
       THEN [map |-> m, calls |-> start, raised |-> fetch]
       ELSE ApprovalsLoop(m, listing, 1, failing, start)

\* ------------------------------------------------------- inline button click
\* a search that yields the empty string where no line matches
ReSearchOrEmpty(label, message_text) ==
    IF \E i \in 1..Len(message_text) : message_text[i].label = label
    THEN message_text[Min({ i \in 1..Len(message_text) : message_text[i].label = label })].value
    ELSE ""

\* re.search(r"^<label>: (.*)", message_text, flags=re.MULTILINE).group(1): the
\* first matching line; no match gives None, whose .group raises
ReSearch(label, message_text) ==
    IF \E i \in 1..Len(message_text) : message_text[i].label = label
    THEN message_text[Min({ i \in 1..Len(message_text) : message_text[i].label = label })].value
    ELSE None

Answer(text) == [Call("answer_callback_query") EXCEPT !.text = text]

AnswerText(data, approval_identifier) ==
    IF data = BUTTON_DATA_APPROVE
    THEN "Approved '" \o approval_identifier \o "'"
    ELSE "Rejected '" \o approval_identifier \o "'"

UnknownErrorText == "Unknwon error"

\* a handler that answers the unknown-error text whatever was raised
ClickExceptGeneric(raised) ==
    IF raised = "none" THEN <<>> ELSE << Answer(UnknownErrorText) >>

\* the except clauses of _inline_keyboard_click_callback
ClickExcept(raised) ==
    IF raised = "none" THEN <<>>
    ELSE IF raised = "HTTPError" THEN << Answer(HttpDetail) >>
    ELSE << Answer(UnknownErrorText) >>

\* the pass first, the acknowledgement after it
UpdateThenAnswer(m, answer_text, fetch, listing, failing) ==
    LET sync == UpdateMessages(m, listing, fetch, failing)
    IN [map |-> sync.map, calls |-> sync.calls \o << Answer(answer_text) >>,
        raised |-> sync.raised]

\* context.bot.answer_callback_query(query_id, text=answer_text); self.update_messages()
AnswerAndUpdate(m, answer_text, fetch, listing, failing) ==
    LET sync == UpdateMessages(m, listing, fetch, failing)
    IN [map |-> sync.map, calls |-> << Answer(answer_text) >> \o sync.calls,
        raised |-> sync.raised]

\* _inline_keyboard_click_callback. api is the outcome of the approve/reject
\* call; fetch, listing and failing are those of the update_messages pass
InlineKeyboardClick(m, user, data, message_text, api, fetch, listing, failing) ==
    LET approval_id == ReSearch("Id", message_text)
        approval_identifier == ReSearch("Identifier", message_text)
        unchanged == [map |-> m, calls |-> <<>>, raised |-> "none"]
    IN IF data = BUTTON_DATA_NOTHING THEN unchanged
       ELSE IF approval_id = None \/ approval_identifier = None
       THEN [unchanged EXCEPT !.calls = ClickExcept("AttributeError")]
       ELSE IF data \in {BUTTON_DATA_APPROVE, BUTTON_DATA_REJECT}
       THEN LET apicall == [Call(data) EXCEPT !.id = approval_id,
                                              !.identifier = approval_identifier,
                                              !.voter = user.full_name,
                                              !.err = api]
            IN IF api # "none"
               THEN [unchanged EXCEPT !.calls = <<apicall>> \o ClickExcept(api)]
               ELSE LET done == AnswerAndUpdate(m, AnswerText(data, approval_identifier),
                                                    fetch, listing, failing)
                    IN [map |-> done.map,
                        calls |-> <<apicall>> \o done.calls \o ClickExcept(done.raised),
                        raised |-> "none"]
       ELSE [unchanged EXCEPT !.calls = << Answer("Unknown button") >>]

\* ------------------------------------------------------ new pending approval
RECURSIVE SendLoop(_, _, _, _, _, _)
\* for chat_id in TELEGRAM_CHAT_IDS: try: send_message; _register_message  except: log
SendLoop(m, next, item, chat_id, send_fails, calls) ==
    IF chat_id > NumChats
    THEN [map |-> m, next |-> next, calls |-> calls, raised |-> "none"]
    ELSE LET c == [Call("send_message") EXCEPT !.chat = chat_id,
                        !.body = approval_to_str(item),
                        !.menu = create_approval_notification_menu(item),
                        !.err = IF chat_id \in send_fails
                                THEN "TelegramError" ELSE "none"]
         IN IF chat_id \in send_fails
            THEN SendLoop(m, next, item, chat_id + 1, send_fails, Append(calls, c))
            ELSE SendLoop(RegisterMessage(m, chat_id, next[chat_id], item.id, item.identifier),
                          [next EXCEPT ![chat_id] = @ + 1], item, chat_id + 1, send_fails,
                          Append(calls, [c EXCEPT !.msg = next[chat_id]]))

\* a dispatch that the first failing send ends
OnNewPendingApprovalNoTry(m, next, item, send_fails) ==
    IF send_fails = {}
    THEN SendLoop(m, next, item, 1, {}, <<>>)
    ELSE LET first == Min(send_fails)
             r == SendLoop(m, next, item, 1, first..NumChats, <<>>)
         IN [r EXCEPT !.calls = SubSeq(r.calls, 1, first), !.raised = "TelegramError"]

\* on_new_pending_approval
OnNewPendingApproval(m, next, item, send_fails) ==
    SendLoop(m, next, item, 1, send_fails, <<>>)

\* ------------------------------------------------------------ admin commands
\* execute(): the API call, then the reply to the user
Execute(op, item, voter, api) ==
    LET apicall == [Call(op) EXCEPT !.id = item.id, !.identifier = item.identifier,
                                    !.voter = voter, !.err = api]
        done == CASE op = "approve" -> "Approved " \o item.identifier
                  [] op = "reject" -> "Rejected " \o item.identifier
                  [] op = "delete" -> "Deleted " \o item.identifier
    IN IF api # "none"
       THEN [calls |-> <<apicall>>, raised |-> api]
       ELSE [calls |-> << apicall, [Call("send_message") EXCEPT !.text = done] >>,
             raised |-> "none"]

\* get_approvals(rejected=False, archived=False)
OpenApprovals(listing) == SelectSeq(listing, LAMBDA item : ~item.rejected /\ ~item.archived)

\* a resolution that acts on an exact id only when no other choice has the
\* record's identifier
CommandCallbackIfUnique(op, items, user, identifier, voter, fetch, api) ==
    LET exact_matches == SelectSeq(items, LAMBDA x : x.id = identifier)
        fetched == [Call("get_approvals") EXCEPT !.err = fetch]
        ambiguous == \E i \in 1..Len(items) :
                        /\ items[i].id # identifier
                        /\ items[i].identifier = exact_matches[1].identifier
    IN IF ~user.is_admin
       THEN [calls |-> <<>>, raised |-> "none"]
       ELSE IF fetch # "none"
       THEN [calls |-> <<fetched>>, raised |-> fetch]
       ELSE IF Len(exact_matches) > 0 /\ ~ambiguous
       THEN LET r == Execute(op, exact_matches[1], voter, api)
            IN [r EXCEPT !.calls = <<fetched>> \o @]
       ELSE [calls |-> << fetched, [Call("await_user_selection") EXCEPT !.text = identifier,
                                                                        !.voter = voter] >>,
             raised |-> "none"]

\* a resolution that acts on the first record with the given identifier
CommandCallbackFirstMatch(op, items, user, identifier, voter, fetch, api) ==
    LET matches == SelectSeq(items, LAMBDA x : x.id = identifier \/ x.identifier = identifier)
        fetched == [Call("get_approvals") EXCEPT !.err = fetch]
    IN IF ~user.is_admin
       THEN [calls |-> <<>>, raised |-> "none"]
       ELSE IF fetch # "none"
       THEN [calls |-> <<fetched>>, raised |-> fetch]
       ELSE IF Len(matches) > 0
       THEN LET r == Execute(op, matches[1], voter, api)
            IN [r EXCEPT !.calls = <<fetched>> \o @]
       ELSE [calls |-> << fetched, [Call("await_user_selection") EXCEPT !.text = identifier,
                                                                        !.voter = voter] >>,
             raised |-> "none"]

\* the body shared by _approve_callback, _reject_callback and _delete_callback:
\* permissions=CONFIG_ADMINS, get_approvals, the exact match on "id", execute
CommandCallback(op, items, user, identifier, voter, fetch, api) ==
    LET exact_matches == SelectSeq(items, LAMBDA x : x.id = identifier)
        fetched == [Call("get_approvals") EXCEPT !.err = fetch]
    IN IF ~user.is_admin
       THEN [calls |-> <<>>, raised |-> "none"]
       ELSE IF fetch # "none"
       THEN [calls |-> <<fetched>>, raised |-> fetch]
       ELSE IF Len(exact_matches) > 0
       THEN LET r == Execute(op, exact_matches[1], voter, api)
            IN [r EXCEPT !.calls = <<fetched>> \o @]
       ELSE [calls |-> << fetched, [Call("await_user_selection") EXCEPT !.text = identifier,
                                                                        !.voter = voter] >>,
             raised |-> "none"]

ApproveCallback(listing, user, identifier, voter, fetch, api) ==
    CommandCallback("approve", OpenApprovals(listing), user, identifier,
                    IF voter = None THEN user.full_name ELSE voter, fetch, api)

RejectCallback(listing, user, identifier, voter, fetch, api) ==
    LET v == IF voter = None THEN user.full_name ELSE voter
    IN CommandCallback("reject", OpenApprovals(listing), user, identifier,
                       IF v = "" THEN user.name ELSE v, fetch, api)

DeleteCallback(listing, user, identifier, voter, fetch, api) ==
    CommandCallback("delete", listing, user, identifier,
                    IF voter = None THEN user.full_name ELSE voter, fetch, api)

\* ------------------------------------------------------------ list-approvals
InList(x, items) == \E i \in 1..Len(items) : items[i] = x

\* list(filter(lambda x: x[KEY_REJECTED], items))
RejectedItems(items) == SelectSeq(items, LAMBDA x : x.rejected)

\* list(filter(lambda x: x[KEY_ARCHIVED], items))
ArchivedItems(items) == SelectSeq(items, LAMBDA x : x.archived)

PendingItems(items) ==
    SelectSeq(items, LAMBDA x : /\ ~InList(x, ArchivedItems(items))
                                /\ ~InList(x, RejectedItems(items))
                                /\ x.votesReceived < x.votesRequired)

ApprovedItems(items) ==
    SelectSeq(items, LAMBDA x : /\ ~InList(x, RejectedItems(items))
                                /\ ~InList(x, ArchivedItems(items))
                                /\ ~InList(x, PendingItems(items)))

\* one "=== Title (n) ===" block of the reply: the title and the items under it
Block(title, items) ==
    [label |-> title, value |-> [n \in 1..Len(items) |-> approval_to_str(items[n])]]

\* _list_approvals_callback: the flags choose the blocks before "Pending"
ListApprovalsCallback(listing, user, archived, approved, rejected, fetch) ==
    LET fetched == [Call("get_approvals") EXCEPT !.err = fetch]
        lines == (IF archived THEN << Block("Archived", ArchivedItems(listing)) >> ELSE <<>>)
                 \o (IF approved THEN << Block("Approved", ApprovedItems(listing)) >> ELSE <<>>)
                 \o (IF rejected THEN << Block("Rejected", RejectedItems(listing)) >> ELSE <<>>)
                 \o << Block("Pending", PendingItems(listing)) >>
    IN IF ~user.is_admin
       THEN [calls |-> <<>>, raised |-> "none"]
       ELSE IF fetch # "none"
       THEN [calls |-> <<fetched>>, raised |-> fetch]
       ELSE [calls |-> << fetched, [Call("send_message") EXCEPT !.body = lines] >>,
             raised |-> "none"]

\* -------------------------------------------------------------- state machine
EmptyMap == [k \in {} |-> <<>>]

Event(kind) == [kind |-> kind, user |-> "", data |-> "", text |-> <<>>, arg |-> "",
                listing |-> <<>>, calls |-> <<>>, pre |-> EmptyMap, raised |-> "none"]

Idle == ev.kind = "idle"

RECURSIVE Sum(_, _)
Sum(f, S) == IF S = {} THEN 0 ELSE LET x == CHOOSE y \in S : TRUE IN f[x] + Sum(f, S \ {x})

\* messages sent so far
Sent == Sum(next_message_id, TELEGRAM_CHAT_IDS) - NumChats

\* the state after __init__: nothing tracked
Init ==
    /\ message_map = EmptyMap
    /\ next_message_id = [c \in TELEGRAM_CHAT_IDS |-> 1]
    /\ ev = Event("idle")

Approval(id, identifier, votesReceived, votesRequired, archived, rejected) ==
    [id |-> id, identifier |-> identifier, votesReceived |-> votesReceived,
     votesRequired |-> votesRequired, archived |-> archived, rejected |-> rejected]

\* approval records: votesReceived >= 0, votesRequired > 0, any flags
Records ==
    { Approval(id, identifier, recv, req, arch, rej) :
        id \in Ids, identifier \in Identifiers, recv \in 0..MaxVotes, req \in 1..MaxVotes,
        arch \in BOOLEAN, rej \in BOOLEAN }

\* the records the remote service lists: no more votes than required
ListedRecords == { r \in Records : r.votesReceived <= r.votesRequired }

IsOpen(r) == ~r.archived /\ ~r.rejected /\ r.votesReceived < r.votesRequired

\* the listings get_approvals() returns: ids are unique; a second record is
\* one that is still open
Listings ==
    {<<>>} \cup { <<r>> : r \in ListedRecords }
    \cup { <<r[1], r[2]>> : r \in { p \in ListedRecords \X ListedRecords :
                                      p[1].id # p[2].id /\ IsOpen(p[2]) } }

SampleText == approval_to_str(Approval("a", "c", 0, 1, FALSE, FALSE))

\* the texts a clicked message can carry: with both lines, without "Id:",
\* without "Identifier:", empty
MessageTexts ==
    { SampleText, Tail(SampleText), <<SampleText[1], SampleText[3]>>, <<>> }

\* the messages tracked under the keys of a listing
TrackedUnder(m, listing) ==
    { <<t[2], t[3]>> : t \in { u \in Tracked(m) :
        \E i \in 1..Len(listing) : u[1] = MessageKey(listing[i].id, listing[i].identifier) } }

\* what one update_messages pass meets: get_approvals() raises, or returns a
\* listing and the platform refuses the edit of some of the messages
NoPass == [fetch |-> "HTTPError", listing |-> <<>>, failing |-> {}]

PassInputs(m) ==
    {NoPass} \cup UNION { { [fetch |-> "none", listing |-> l, failing |-> f] :
                              f \in SUBSET TrackedUnder(m, l) } : l \in Listings }

HasCall(calls, op) == \E n \in 1..Len(calls) : calls[n].op = op

\* a user clicks an inline button
Click ==
    /\ Idle
    /\ \E user \in Users, data \in ButtonTokens, message_text \in MessageTexts,
          api \in ApiOutcomes :
        LET syncs == HasCall(InlineKeyboardClick(message_map, user, data, message_text, api,
                                 NoPass.fetch, NoPass.listing, NoPass.failing).calls,
                             "update_messages")
        IN \E p \in (IF syncs THEN PassInputs(message_map) ELSE {NoPass}) :
            /\ LET r == InlineKeyboardClick(message_map, user, data, message_text,
                                            api, p.fetch, p.listing, p.failing)
               IN /\ message_map' = r.map
                  /\ ev' = [Event("click") EXCEPT !.user = user.full_name, !.data = data,
                                !.text = message_text, !.listing = p.listing,
                                !.calls = r.calls, !.pre = message_map,
                                !.raised = r.raised]
            /\ UNCHANGED next_message_id

\* update_messages called on its own
Synchronize ==
    /\ Idle
    /\ \E p \in PassInputs(message_map) :
        /\ LET r == UpdateMessages(message_map, p.listing, p.fetch, p.failing)
           IN /\ message_map' = r.map
              /\ ev' = [Event("update_messages") EXCEPT !.listing = p.listing,
                            !.calls = r.calls, !.pre = message_map, !.raised = r.raised]
        /\ UNCHANGED next_message_id

\* update_messages called a second time in a row, the listing being the same
SynchronizeAgain ==
    /\ ev.kind = "update_messages"
    /\ Ok(ev.calls[2])                      \* get_approvals() returned the listing
    /\ \E p \in PassInputs(message_map) :
        /\ p.fetch = "none" /\ p.listing = ev.listing
        /\ LET r == UpdateMessages(message_map, p.listing, p.fetch, p.failing)
           IN /\ message_map' = r.map
              /\ ev' = [kind |-> "update_messages_again", user |-> "", data |-> "",
                        text |-> <<>>, arg |-> "", listing |-> p.listing, calls |-> r.calls,
                        pre |-> message_map, raised |-> r.raised,
                        first |-> ev.calls]     \* the calls of the pass before
        /\ UNCHANGED next_message_id

\* the webhook reports a pending approval
NewPendingApproval ==
    /\ Idle
    /\ \E item \in ListedRecords, send_fails \in SUBSET TELEGRAM_CHAT_IDS :
        /\ Sent + Cardinality(TELEGRAM_CHAT_IDS \ send_fails) <= MaxMessages
        /\ LET r == OnNewPendingApproval(message_map, next_message_id, item, send_fails)
           IN /\ message_map' = r.map
              /\ next_message_id' = r.next
              /\ ev' = [Event("on_new_pending_approval") EXCEPT !.listing = <<item>>,
                            !.calls = r.calls, !.pre = message_map, !.raised = r.raised]

\* the handler returns and the dispatcher takes the next update
Return ==
    /\ ~Idle
    /\ ev' = Event("idle")
    /\ UNCHANGED <<message_map, next_message_id>>

Next ==
    \/ Return
    \/ Click
    \/ Synchronize
    \/ SynchronizeAgain
    \/ NewPendingApproval

Spec == Init /\ [][Next]_vars

\* ------------------------------------------- the admin commands on their own
Command(kind, r, user, identifier, listing) ==
    /\ ev' = [Event(kind) EXCEPT !.user = user.full_name, !.arg = identifier,
                  !.listing = listing, !.calls = r.calls, !.pre = message_map,
                  !.raised = r.raised]
    /\ UNCHANGED <<message_map, next_message_id>>

ApproveCommand ==
    /\ Idle
    /\ \E user \in Users, identifier \in Ids \cup Identifiers, voter \in Voters,
          fetch \in {"none", "HTTPError"}, api \in ApiOutcomes, listing \in Listings :
        Command("approve", ApproveCallback(listing, user, identifier, voter, fetch, api),
                user, identifier, listing)

RejectCommand ==
    /\ Idle
    /\ \E user \in Users, identifier \in Ids \cup Identifiers, voter \in Voters,
          fetch \in {"none", "HTTPError"}, api \in ApiOutcomes, listing \in Listings :
        Command("reject", RejectCallback(listing, user, identifier, voter, fetch, api),
                user, identifier, listing)

DeleteCommand ==
    /\ Idle
    /\ \E user \in Users, identifier \in Ids \cup Identifiers, voter \in Voters,
          fetch \in {"none", "HTTPError"}, api \in ApiOutcomes, listing \in Listings :
        Command("delete", DeleteCallback(listing, user, identifier, voter, fetch, api),
                user, identifier, listing)

\* choices=items: the open approvals for approve and reject, all for delete
Choices(kind, listing) == IF kind = "delete" THEN listing ELSE OpenApprovals(listing)

\* selection is part of text
Contains(text, selection) ==
    \E i \in 1..Len(text) :
        /\ i + Len(selection) - 1 <= Len(text)
        /\ SubSeq(text, i, i + Len(selection) - 1) = selection

\* ReplyKeyboardHandler: the choices offered for a selection, matched on key(x)
Candidates(choices, selection) ==
    SelectSeq(choices, LAMBDA x : Contains(x.identifier, selection))

\* the command is suspended in await_user_selection
AwaitingSelection ==
    /\ ev.kind \in {"approve", "reject", "delete"}
    /\ Len(ev.calls) >= 1
    /\ ev.calls[Len(ev.calls)].op = "await_user_selection"

\* _any_message_callback: the user's reply names one of the offered choices,
\* and the handler calls callback=execute with it
AnyMessage ==
    /\ AwaitingSelection
    /\ \E n \in 1..Len(Candidates(Choices(ev.kind, ev.listing), ev.arg)), api \in ApiOutcomes :
        LET item == Candidates(Choices(ev.kind, ev.listing), ev.arg)[n]
            reply == [Call("on_message") EXCEPT !.id = item.id,
                                                !.identifier = item.identifier]
            r == Execute(ev.kind, item, ev.calls[Len(ev.calls)].voter, api)
        IN ev' = [ev EXCEPT !.calls = @ \o <<reply>> \o r.calls, !.raised = r.raised]
    /\ UNCHANGED <<message_map, next_message_id>>

\* cancel_keyboard_callback: the user gives the selection up
CancelKeyboard ==
    /\ AwaitingSelection
    /\ ev' = [ev EXCEPT !.calls = Append(@, Call("cancel_keyboard"))]
    /\ UNCHANGED <<message_map, next_message_id>>

ListApprovalsCommand ==
    /\ Idle
    /\ \E user \in Users, archived \in BOOLEAN, approved \in BOOLEAN, rejected \in BOOLEAN,
          fetch \in {"none", "HTTPError"}, listing \in Listings :
        Command("list_approvals",
                ListApprovalsCallback(listing, user, archived, approved, rejected, fetch),
                user, <<archived, approved, rejected>>, listing)

NextCmd ==
    \/ Return
    \/ ListApprovalsCommand
    \/ ApproveCommand
    \/ RejectCommand
    \/ DeleteCommand
    \/ AnyMessage
    \/ CancelKeyboard

SpecCmd == Init /\ [][NextCmd]_vars

\* ------------------------------- two units of work handled at the same time
\* on_new_pending_approval is called from the webhook, update_messages from
\* the dispatcher: nothing in the class serializes them. A step is one call
\* to the network and what the thread does on its own after it; ev.procs holds
\* each thread's position and local variables.
Proc(op, pc, item) ==
    [op |-> op, pc |-> pc, item |-> item,
     j |-> 0,                 \* position of the chats.items() iterator
     dict_used |-> 0,         \* size of chats when the iterator was created
     chat_id |-> 0,
     last |-> 0,              \* the message id the set iterator yielded last
     set_used |-> 0,          \* size of message_ids when the iterator was created
     message_id |-> 0,
     failed_messages |-> {},
     todo |-> {},             \* what "for failure in failed_messages" has yet to yield
     raised |-> "none"]

PassProc(item) == Proc("update_messages", "get_approvals", item)

DispatchProc(item) == [Proc("on_new_pending_approval", "send_message", item)
                          EXCEPT !.chat_id = 1]

ProcIds == {1, 2}

OpenRecords == { r \in ListedRecords : IsOpen(r) }

Concurrent == ev.kind = "concurrent"

Finished(P) == P.pc \in {"done", "raised"}

AllFinished == \A p \in ProcIds : Finished(ev.procs[p])

ProcKey(P) == MessageKey(P.item.id, P.item.identifier)

Raise(P, error) == [P EXCEPT !.pc = "raised", !.raised = error]

\* two units of work about the same approval start: a pass, and either a
\* second pass or the dispatch of the approval
StartConcurrent ==
    /\ Idle
    /\ \E item \in OpenRecords : \E second \in {PassProc(item), DispatchProc(item)} :
        ev' = [kind |-> "concurrent", user |-> "", data |-> "", text |-> <<>>, arg |-> "",
               listing |-> <<item>>, calls |-> <<>>, pre |-> message_map,
               raised |-> "none", procs |-> << PassProc(item), second >>]
    /\ UNCHANGED <<message_map, next_message_id>>

\* for chat_id, message_ids in chats.items(): the dict iterator raises when the
\* dict changed size; iter(message_ids)
NextChat(m, P) ==
    LET chats == m[ProcKey(P)]
    IN IF Len(chats) # P.dict_used THEN Raise(P, "RuntimeError")
       ELSE IF P.j = P.dict_used THEN [P EXCEPT !.pc = "done"]
       ELSE [P EXCEPT !.pc = "next_message", !.j = @ + 1,
                      !.chat_id = chats[P.j + 1].chat_id, !.last = 0,
                      !.set_used = Cardinality(chats[P.j + 1].message_ids)]

\* for message_id in message_ids: the set iterator raises when the set changed
\* size, and else yields the next id in table order
NextMessage(m, P) ==
    LET message_ids == m[ProcKey(P)][P.j].message_ids
        rest == { id \in message_ids : id > P.last }
    IN IF Cardinality(message_ids) # P.set_used THEN Raise(P, "RuntimeError")
       ELSE IF rest = {}
       THEN [P EXCEPT !.pc = "remove", !.todo = P.failed_messages]
       ELSE [P EXCEPT !.pc = "edit_message_text", !.message_id = Min(rest),
                      !.last = Min(rest)]

RECURSIVE RunToCall(_, _, _)
\* what a pass does on its own, up to its next edit_message_text call or its end
RunToCall(m, P, calls) ==
    IF P.pc \in {"edit_message_text", "done", "raised"}
    THEN [map |-> m, proc |-> P, calls |-> calls]
    ELSE IF P.pc = "next_chat" THEN RunToCall(m, NextChat(m, P), calls)
    ELSE IF P.pc = "next_message" THEN RunToCall(m, NextMessage(m, P), calls)
    ELSE \* "remove": for failure in failed_messages: message_ids.remove(failure)
         LET rem == RemoveFailures(P.chat_id, m[ProcKey(P)][P.j].message_ids, P.todo, calls)
             m2 == [m EXCEPT ![ProcKey(P)][P.j].message_ids = rem.message_ids]
         IN IF rem.raised # "none"
            THEN RunToCall(m2, Raise(P, rem.raised), rem.calls)
            ELSE RunToCall(m2, [P EXCEPT !.pc = "next_chat", !.todo = {}], rem.calls)

\* approvals = get_approvals(); chats = self._message_map.get(key, {});
\* failed_messages = set(); then the loops up to the first edit
GetApprovals(p) ==
    /\ Concurrent
    /\ ev.procs[p].op = "update_messages" /\ ev.procs[p].pc = "get_approvals"
    /\ \E fetch \in {"none", "HTTPError"} :
        LET P == ev.procs[p]
            c == [Call("get_approvals") EXCEPT !.err = fetch]
            P2 == IF fetch # "none" THEN Raise(P, fetch)
                  ELSE IF ProcKey(P) \notin DOMAIN message_map THEN [P EXCEPT !.pc = "done"]
                  ELSE [P EXCEPT !.pc = "next_chat",
                                 !.dict_used = Len(message_map[ProcKey(P)])]
            r == RunToCall(message_map, P2, <<c>>)
        IN /\ ev' = [ev EXCEPT !.procs[p] = r.proc, !.calls = @ \o r.calls]
           /\ message_map' = r.map
    /\ UNCHANGED next_message_id

\* try: self.bot.edit_message_text(...)  except: failed_messages.add(message_id);
\* then the loops up to the next edit
EditMessageText(p) ==
    /\ Concurrent
    /\ ev.procs[p].pc = "edit_message_text"
    /\ \E failing \in SUBSET {<<ev.procs[p].chat_id, ev.procs[p].message_id>>} :
        LET P == ev.procs[p]
            c == EditCalls(P.item, P.chat_id, {P.message_id}, failing)
            P2 == [P EXCEPT !.pc = "next_message",
                            !.failed_messages =
                                IF failing = {} THEN @ ELSE @ \cup {P.message_id}]
            r == RunToCall(message_map, P2, c)
        IN /\ ev' = [ev EXCEPT !.procs[p] = r.proc, !.calls = @ \o r.calls]
           /\ message_map' = r.map
    /\ UNCHANGED next_message_id

\* on_new_pending_approval, one chat: send_message, then _register_message
SendMessage(p) ==
    /\ Concurrent
    /\ ev.procs[p].pc = "send_message"
    /\ \E send_fails \in SUBSET {ev.procs[p].chat_id} :
        LET P == ev.procs[p]
            r == SendLoop(message_map, next_message_id, P.item, P.chat_id,
                          send_fails \cup (P.chat_id + 1)..NumChats, <<>>)
        IN /\ send_fails = {} => Sent < MaxMessages
           /\ message_map' = r.map
           /\ next_message_id' = r.next
           /\ ev' = [ev EXCEPT !.calls = Append(@, r.calls[1]),
                         !.procs[p] = IF P.chat_id = NumChats THEN [P EXCEPT !.pc = "done"]
                                      ELSE [P EXCEPT !.chat_id = @ + 1]]

\* both units of work are over
Finish ==
    /\ Concurrent
    /\ AllFinished
    /\ Return

NextConc ==
    \/ ~Concurrent /\ Return
    \/ NewPendingApproval
    \/ StartConcurrent
    \/ \E p \in ProcIds : GetApprovals(p)
    \/ \E p \in ProcIds : EditMessageText(p)
    \/ \E p \in ProcIds : SendMessage(p)
    \/ Finish

SpecConc == Init /\ [][NextConc]_vars

\* ---------------------------------------------------------------- properties
CallIdx == 1..Len(ev.calls)

\* the event ran an update_messages pass that fetched a listing
PassRan ==
    \E n \in CallIdx : /\ ev.calls[n].op = "update_messages"
                       /\ n < Len(ev.calls)
                       /\ ev.calls[n + 1].op = "get_approvals"
                       /\ Ok(ev.calls[n + 1])

ListedKeys ==
    { MessageKey(ev.listing[i].id, ev.listing[i].identifier) : i \in 1..Len(ev.listing) }

EditsOf(chat_id, message_id) ==
    { n \in CallIdx : /\ ev.calls[n].op = "edit"
                      /\ ev.calls[n].chat = chat_id
                      /\ ev.calls[n].msg = message_id }

EditAttempted(chat_id, message_id) == EditsOf(chat_id, message_id) # {}

EditFailed(chat_id, message_id) ==
    \E n \in EditsOf(chat_id, message_id) : ~Ok(ev.calls[n])

OkEditsOf(chat_id, message_id) ==
    { n \in EditsOf(chat_id, message_id) : Ok(ev.calls[n]) }

Max(S) == CHOOSE x \in S : \A y \in S : x >= y

\* what the message shows after the pass: the last edit that went through
Displayed(chat_id, message_id) == ev.calls[Max(OkEditsOf(chat_id, message_id))]

PassAborted == \E n \in CallIdx : ev.calls[n].err = "KeyError"

\* C1: in a pass, every message tracked at its start under the key of a listed
\* approval receives an edit attempt, whichever other edits fail, and the pass
\* never aborts because of an edit failure.
C1_EveryTrackedMessageEdited ==
    PassRan =>
        /\ \A t \in Tracked(ev.pre) : t[1] \in ListedKeys => EditAttempted(t[2], t[3])
        /\ ~PassAborted

\* C2: after a pass, the tracked entries are those tracked before it minus
\* exactly the entries whose edit failed in the pass.
C2_TrackedMinusFailed ==
    PassRan =>
        Tracked(message_map)
            = Tracked(ev.pre) \ { t \in Tracked(ev.pre) : EditFailed(t[2], t[3]) }

\* C3: every successful state-changing API call (approve, reject, delete) is
\* followed, in the handling of the same event, by an update_messages call.
C3_SyncAfterStateChange ==
    \A n \in CallIdx :
        (ev.calls[n].op \in {"approve", "reject", "delete"} /\ Ok(ev.calls[n]))
            => \E k \in CallIdx : k > n /\ ev.calls[k].op = "update_messages"

MenuTokens(menu) == { menu[i][2] : i \in 1..Len(menu) }

\* C4: after a pass, every tracked message of a listed approval whose edit
\* succeeded shows the text and the controls rendered from that approval's
\* record in the fetched listing, with no approve or reject button once the
\* record is no longer open.
C4_DisplayMatchesListing ==
    PassRan =>
        \A i \in 1..Len(ev.listing) : \A t \in Tracked(message_map) :
            ( /\ t[1] = MessageKey(ev.listing[i].id, ev.listing[i].identifier)
              /\ OkEditsOf(t[2], t[3]) # {} )
            => /\ Displayed(t[2], t[3]).body = approval_to_str(ev.listing[i])
               /\ Displayed(t[2], t[3]).menu = create_approval_notification_menu(ev.listing[i])
               /\ ~IsOpen(ev.listing[i]) =>
                    MenuTokens(Displayed(t[2], t[3]).menu)
                        \cap {BUTTON_DATA_APPROVE, BUTTON_DATA_REJECT} = {}

\* C5: every removal the pass performs leaves the id absent from the chat's set,
\* and removing an id that the set does not hold raises no error.
C5_ForgetNeverRaises ==
    \A n \in CallIdx :
        ev.calls[n].op = "remove" =>
            /\ Ok(ev.calls[n])
            /\ <<ev.calls[n].chat, ev.calls[n].msg>> \notin
                 { <<t[2], t[3]>> : t \in { u \in Tracked(message_map) : u[1] \in ListedKeys } }

\* the sends of on_new_pending_approval that returned a message
OkSends == { n \in CallIdx : ev.calls[n].op = "send_message" /\ Ok(ev.calls[n]) }

\* C6: on_new_pending_approval attempts a send to every configured chat even
\* when other sends fail; the registry gains, under the item's key, exactly the
\* (chat, message) pairs the successful sends returned, and nothing is raised.
C6_DispatchToEveryChat ==
    ev.kind = "on_new_pending_approval" =>
        /\ Len(ev.calls) = NumChats
        /\ \A c \in TELEGRAM_CHAT_IDS :
              ev.calls[c].op = "send_message" /\ ev.calls[c].chat = c
        /\ Tracked(message_map)
              = Tracked(ev.pre) \cup
                { <<MessageKey(ev.listing[1].id, ev.listing[1].identifier),
                    ev.calls[n].chat, ev.calls[n].msg>> : n \in OkSends }
        /\ ev.raised = "none"

C6_Witness ==
    /\ ev.kind = "on_new_pending_approval"
    /\ \E a, b \in CallIdx : a < b /\ ~Ok(ev.calls[a]) /\ Ok(ev.calls[b])
    /\ Tracked(ev.pre) # {}

ActionClick == ev.kind = "click" /\ ev.data \in {BUTTON_DATA_APPROVE, BUTTON_DATA_REJECT}

HasLine(label) == \E i \in 1..Len(ev.text) : ev.text[i].label = label

HasBothLines == HasLine("Id") /\ HasLine("Identifier")

\* C7: an approve/reject click on a message with both lines makes the matching
\* API call (parsed id and identifier, the clicking user's full name) first,
\* then acknowledges with the outcome text, then calls update_messages; and
\* update_messages is called only after a successful API call.
C7_ClickOrder ==
    (ActionClick /\ HasBothLines) =>
        /\ Len(ev.calls) >= 1
        /\ ev.calls[1] = [Call(ev.data) EXCEPT !.id = ReSearch("Id", ev.text),
                              !.identifier = ReSearch("Identifier", ev.text),
                              !.voter = ev.user, !.err = ev.calls[1].err]
        /\ Ok(ev.calls[1]) =>
              /\ Len(ev.calls) >= 3
              /\ ev.calls[2] = Answer(AnswerText(ev.data, ReSearch("Identifier", ev.text)))
              /\ ev.calls[3].op = "update_messages"
        /\ \A n \in CallIdx :
              /\ ev.calls[n].op = "update_messages" => (n = 3 /\ Ok(ev.calls[1]))
              /\ ev.calls[n].op \in {"approve", "reject", "delete"} => n = 1

C7_Witness ==
    /\ ActionClick /\ HasBothLines
    /\ Ok(ev.calls[1])
    /\ \E n \in CallIdx : ev.calls[n].op = "edit"

\* C8: an approve/reject click on a message without the "Id:" or the
\* "Identifier:" line issues no API call and no update_messages, leaves the
\* registry unchanged and is acknowledged with the unknown-error text.
C8_MalformedText ==
    (ActionClick /\ ~HasBothLines) =>
        /\ ev.calls = << Answer(UnknownErrorText) >>
        /\ message_map = ev.pre

C8_Witness ==
    /\ ActionClick
    /\ ~HasLine("Id")
    /\ HasLine("Identifier")
    /\ Tracked(ev.pre) # {}

\* C9: when the API call of a click fails with an HTTP error, the click is
\* acknowledged with the API's error detail, not the unknown-error text, no
\* update_messages pass runs and the registry is unchanged.
C9_HttpErrorDetail ==
    ( /\ ev.kind = "click"
      /\ Len(ev.calls) >= 1
      /\ ev.calls[1].op \in {"approve", "reject"}
      /\ ev.calls[1].err = "HTTPError" )
    => /\ ev.calls = << ev.calls[1], Answer(HttpDetail) >>
       /\ HttpDetail # UnknownErrorText
       /\ message_map = ev.pre

C9_Witness ==
    /\ ev.kind = "click"
    /\ Len(ev.calls) >= 1
    /\ ev.calls[1].op \in {"approve", "reject"}
    /\ ev.calls[1].err = "HTTPError"
    /\ Tracked(ev.pre) # {}

\* C10: a click with the no-op token is acknowledged and does nothing else: no
\* API call, no update_messages, the registry unchanged.
C10_NoopAcknowledged ==
    (ev.kind = "click" /\ ev.data = BUTTON_DATA_NOTHING) =>
        /\ \E n \in CallIdx : ev.calls[n].op = "answer_callback_query"
        /\ \A n \in CallIdx : ev.calls[n].op = "answer_callback_query"
        /\ message_map = ev.pre

\* the acknowledgements the clicking user receives
Acks == { n \in CallIdx : ev.calls[n].op = "answer_callback_query" }

\* C11: a click whose approve/reject call succeeded and whose pass fetched the
\* listing is acknowledged exactly once, with the outcome text, whichever
\* edits of tracked messages fail in the pass.
C11_EditFailureNotSurfaced ==
    (ActionClick /\ Len(ev.calls) >= 1 /\ Ok(ev.calls[1]) /\ PassRan) =>
        /\ Cardinality(Acks) = 1
        /\ \A n \in Acks :
              ev.calls[n].text = AnswerText(ev.data, ReSearch("Identifier", ev.text))

\* the entries the sends of the event registered
Registered ==
    { <<MessageKey(ev.listing[1].id, ev.listing[1].identifier),
        ev.calls[n].chat, ev.calls[n].msg>> : n \in OkSends }

\* C12: when a pass runs at the same time as a dispatch or as another pass on
\* the same key, no unit of work is ended by an error of the registry (only a
\* failed fetch ends a pass), and once both are over the registry tracks the
\* entries tracked before and those registered, minus exactly the entries
\* whose edit failed.
C12_SameKeySerialized ==
    Concurrent =>
        /\ \A p \in ProcIds : ev.procs[p].raised \in {"none", "HTTPError"}
        /\ AllFinished =>
              Tracked(message_map)
                  = (Tracked(ev.pre) \cup Registered)
                        \ { t \in Tracked(ev.pre) \cup Registered : EditFailed(t[2], t[3]) }

\* the records of a class
Class(items) == Range(items)

\* C13: the four classes the list-approvals command computes from a listing
\* (archived, rejected, pending, approved) are pairwise disjoint and their
\* union is the listing, also for a record that is both archived and rejected.
C13_ClassesPartition ==
    (ev.kind = "list_approvals" /\ HasCall(ev.calls, "send_message")) =>
        LET classes == << Class(ArchivedItems(ev.listing)), Class(RejectedItems(ev.listing)),
                          Class(PendingItems(ev.listing)), Class(ApprovedItems(ev.listing)) >>
        IN /\ \A i, k \in 1..4 : i # k => classes[i] \cap classes[k] = {}
           /\ UNION Range(classes) = Range(ev.listing)

\* C14: the menu sent with a record holds the approve and the reject action
\* exactly when the record is open (not archived, not rejected, votesReceived <
\* votesRequired); for an archived or rejected record it is one no-op control;
\* no menu holds an approve or reject action together with a no-op control.
C14_MenuMatchesState ==
    ev.kind = "on_new_pending_approval" =>
        \A n \in CallIdx :
            LET item == ev.listing[1]
                menu == ev.calls[n].menu
                tokens == MenuTokens(menu)
            IN /\ ({BUTTON_DATA_APPROVE, BUTTON_DATA_REJECT} \subseteq tokens) <=> IsOpen(item)
               /\ (item.archived \/ item.rejected) =>
                     (Len(menu) = 1 /\ tokens = {BUTTON_DATA_NOTHING})
               /\ ~( /\ tokens \cap {BUTTON_DATA_APPROVE, BUTTON_DATA_REJECT} # {}
                     /\ BUTTON_DATA_NOTHING \in tokens )

C14_Witness ==
    /\ ev.kind = "on_new_pending_approval"
    /\ ev.listing[1].rejected /\ ~ev.listing[1].archived
    /\ ev.listing[1].votesReceived < ev.listing[1].votesRequired
    /\ OkSends # {}

\* the message ids tracked for a key in a chat
MessagesFor(m, key, chat_id) == { t[3] : t \in { u \in Tracked(m) : u[1] = key /\ u[2] = chat_id } }

\* C15: in every registry, and for the registrations a dispatch made, a
\* registration adds the message id to the set of its key and chat and changes
\* nothing else; a second registration with the same arguments leaves the
\* registry identical, with a set of size 1 when nothing was tracked there.
C15_RegisterIdempotent ==
    /\ \A chat_id \in TELEGRAM_CHAT_IDS, message_id \in 1..MaxMessages,
          approval_id \in Ids, approval_identifier \in Identifiers :
          LET key == MessageKey(approval_id, approval_identifier)
              once == RegisterMessage(message_map, chat_id, message_id,
                                      approval_id, approval_identifier)
              twice == RegisterMessage(once, chat_id, message_id,
                                       approval_id, approval_identifier)
          IN /\ Tracked(once) = Tracked(message_map) \cup {<<key, chat_id, message_id>>}
             /\ \A k \in DOMAIN message_map : k # key => once[k] = message_map[k]
             /\ twice = once
             /\ MessagesFor(message_map, key, chat_id) = {}
                   => Cardinality(MessagesFor(twice, key, chat_id)) = 1
    /\ ev.kind = "on_new_pending_approval" =>
          /\ Registered \subseteq Tracked(message_map)
          /\ Tracked(ev.pre) \subseteq Tracked(message_map)
          /\ \A n \in OkSends :
                RegisterMessage(message_map, ev.calls[n].chat, ev.calls[n].msg,
                                ev.listing[1].id, ev.listing[1].identifier) = message_map

C15_Witness ==
    /\ ev.kind = "on_new_pending_approval"
    /\ \E t \in Registered : \E u \in Tracked(ev.pre) : u[1] = t[1] /\ u[2] = t[2]

CommandEvent == ev.kind \in {"approve", "reject", "delete"}

\* the command fetched its listing
Fetched == Len(ev.calls) >= 1 /\ ev.calls[1].op = "get_approvals" /\ Ok(ev.calls[1])

Mutations == { n \in CallIdx : ev.calls[n].op \in {"approve", "reject", "delete"} }

\* C16: when the argument of an approve, reject or delete command is the id of
\* a record among the command's choices, the mutation is issued at once for
\* that record and no selection takes place, also when another choice has the
\* same identifier.
C16_ExactIdActsAtOnce ==
    ( /\ CommandEvent /\ Fetched
      /\ \E x \in Range(Choices(ev.kind, ev.listing)) : x.id = ev.arg )
    => /\ Mutations = {2}
       /\ ev.calls[2].op = ev.kind
       /\ \E x \in Range(Choices(ev.kind, ev.listing)) :
             /\ x.id = ev.arg
             /\ ev.calls[2].id = x.id
             /\ ev.calls[2].identifier = x.identifier
       /\ \A n \in CallIdx : ev.calls[n].op \notin {"await_user_selection", "on_message"}

C16_Witness ==
    /\ CommandEvent /\ Fetched
    /\ \E x, y \in Range(Choices(ev.kind, ev.listing)) :
          x.id = ev.arg /\ y.id # x.id /\ y.identifier = x.identifier
    /\ Len(ev.calls) >= 2 /\ Ok(ev.calls[2])

\* the argument is the identifier of two of the open approvals and the id of none
SharedIdentifier ==
    /\ \A x \in Range(OpenApprovals(ev.listing)) : x.id # ev.arg
    /\ \E x, y \in Range(OpenApprovals(ev.listing)) :
          x.id # y.id /\ x.identifier = ev.arg /\ y.identifier = ev.arg

\* C17: when two open approvals have the identifier given to the approve
\* command (and none has it as id), the command passes to the selection and
\* issues no approve call of its own; an approve call comes only after the
\* user's reply, for the record the reply chose among those with the identifier.
C17_SharedIdentifierAsks ==
    (ev.kind = "approve" /\ Fetched /\ SharedIdentifier) =>
        /\ Len(ev.calls) >= 2
        /\ ev.calls[2].op = "await_user_selection"
        /\ \A n \in Mutations :
              /\ n > 3
              /\ ev.calls[n].op = "approve"
              /\ ev.calls[n - 1].op = "on_message"
              /\ ev.calls[n - 1].id = ev.calls[n].id
              /\ \E x \in Range(OpenApprovals(ev.listing)) :
                    x.id = ev.calls[n].id /\ x.identifier = ev.arg

C17_Witness ==
    /\ ev.kind = "approve" /\ Fetched /\ SharedIdentifier
    /\ \E n \in Mutations : Ok(ev.calls[n])

\* the (id, identifier) pairs of the fetched listing
ListedPairs == { <<ev.listing[i].id, ev.listing[i].identifier>> : i \in 1..Len(ev.listing) }

EntriesOf(m, key) == { t \in Tracked(m) : t[1] = key }

\* C18: for every approval (id, identifier) that the fetched listing does not
\* hold, a pass attempts no edit of the messages tracked under its composite key
\* and leaves them tracked as they were.
C18_AbsentUntouched ==
    PassRan =>
        \A approval_id \in Ids, approval_identifier \in Identifiers :
            <<approval_id, approval_identifier>> \notin ListedPairs =>
                LET key == MessageKey(approval_id, approval_identifier)
                IN /\ EntriesOf(message_map, key) = EntriesOf(ev.pre, key)
                   /\ \A t \in EntriesOf(ev.pre, key) : ~EditAttempted(t[2], t[3])

AllEditsOk(calls) == \A n \in 1..Len(calls) : calls[n].op = "edit" => Ok(calls[n])

\* C19: a second pass in a row, with the same listing and no edit failing in
\* either, issues the same calls as the first (same chat, message, text and
\* controls) and leaves the registry exactly as the first left it.
C19_PassIdempotent ==
    ( /\ ev.kind = "update_messages_again"
      /\ AllEditsOk(ev.first) /\ AllEditsOk(ev.calls) )
    => /\ ev.calls = ev.first
       /\ message_map = ev.pre
       /\ ev.raised = "none"

C19_Witness ==
    /\ ev.kind = "update_messages_again"
    /\ AllEditsOk(ev.first) /\ AllEditsOk(ev.calls)
    /\ Cardinality({ n \in CallIdx : ev.calls[n].op = "edit" }) >= 2
    /\ \E k \in DOMAIN message_map : k \notin ListedKeys

\* C20: the messages registered for an approval are not tracked under the
\* composite key of any approval with another (id, identifier) pair.
C20_KeyInjective ==
    ev.kind = "on_new_pending_approval" =>
        \A approval_id \in Ids, approval_identifier \in Identifiers :
            <<approval_id, approval_identifier>> # <<ev.listing[1].id, ev.listing[1].identifier>>
            => \A t \in Registered :
                  <<t[2], t[3]>> \notin
                      { <<u[2], u[3]>> :
                          u \in EntriesOf(message_map,
                                          MessageKey(approval_id, approval_identifier)) }

\* the user whose event is being handled passes permissions=CONFIG_ADMINS
EventUserIsAdmin == \E u \in Users : u.full_name = ev.user /\ u.is_admin

\* C21: every approve, reject or delete call made to the approval API is made
\* while handling an event of a user who passes the admin permission check,
\* for button clicks as for the commands.
C21_MutationsByAdminsOnly ==
    \A n \in CallIdx :
        ev.calls[n].op \in {"approve", "reject", "delete"} => EventUserIsAdmin

====
